---- MODULE Spec2Model ----
(***************************************************************************)
(* Model of src/postprocessors.rs: the four built-in postprocessors of the *)
(* exporter (softbreaks_to_hardbreaks, destination_from_frontmatter,       *)
(* filter_by_tags, remove_specified_tags) acting on one Context and one    *)
(* stream of markdown events.                                              *)
(*                                                                         *)
(* Strings are sequences of one-character strings, paths are sequences of  *)
(* components (std::path::Path::components), frontmatter values are        *)
(* records [t, v] mirroring serde_yaml::Value.                             *)
(***************************************************************************)
EXTENDS Integers, Sequences, FiniteSets, TLC

VARIABLES frontmatter, current_file, destination, events,
          skip_tags, only_tags, to_remove,
          pc, from, to, idx, assets,
          stage, result, pre, calls

vars == <<frontmatter, current_file, destination, events,
          skip_tags, only_tags, to_remove,
          pc, from, to, idx, assets,
          stage, result, pre, calls>>

(***************************************************************************)
(* Bounds of the model.                                                    *)
(***************************************************************************)
MaxCalls == 2

MaxTags == 3

MaxEvents == 2

(***************************************************************************)
(* Option<T>, serde_yaml::Value                                            *)
(***************************************************************************)
None == [some |-> FALSE, v |-> <<>>]

Some(x) == [some |-> TRUE, v |-> x]

unwrap_or(o, d) == IF o.some THEN o.v ELSE d

VString(s) == [t |-> "String", s |-> s, xs |-> <<>>]

VSequence(xs) == [t |-> "Sequence", s |-> <<>>, xs |-> xs]

VNumber == [t |-> "Number", s |-> <<"7">>, xs |-> <<>>]

VNull == [t |-> "Null", s |-> <<>>, xs |-> <<>>]

VMapping == [t |-> "Mapping", s |-> <<>>, xs |-> <<>>]

\* a key the mapping does not hold
Absent == [t |-> "Absent", s |-> <<>>, xs |-> <<>>]

as_str(val) == IF val.t = "String" THEN Some(val.s) ELSE None

Get(fm, k) == IF k \in DOMAIN fm THEN Some(fm[k]) ELSE None

Insert(fm, k, val) == [x \in (DOMAIN fm) \cup {k} |-> IF x = k THEN val ELSE fm[x]]

Contains(seq, x) == \E i \in 1..Len(seq) : seq[i] = x

(***************************************************************************)
(* softbreaks_to_hardbreaks                                                *)
(***************************************************************************)
SoftBreak == [e |-> "SoftBreak", url |-> <<>>]

HardBreak == [e |-> "HardBreak", url |-> <<>>]

Text == [e |-> "Text", url |-> <<>>]

Image(u) == [e |-> "Image", url |-> u]

BreakEventM(event) == IF event = HardBreak THEN SoftBreak ELSE event

BreakEvent(event) == IF event = SoftBreak THEN HardBreak ELSE event

RECURSIVE BreakLoop(_)
BreakLoop(evs) ==
    IF evs = <<>> THEN <<>>
    ELSE <<BreakEvent(Head(evs))>> \o BreakLoop(Tail(evs))

(***************************************************************************)
(* filter_by_tags, filter_by_tags_                                         *)
(***************************************************************************)
filter_by_tags_M(tags, skips, onlys) ==
    LET skip == \E j \in 1..Len(skips) : Contains(tags, VString(skips[j]))
        include == onlys = <<>>
                   \/ \E j \in 1..Len(onlys) : Contains(tags, VString(onlys[j]))
    IN  IF skip /\ ~include THEN "StopAndSkipNote" ELSE "Continue"

filter_by_tags_(tags, skips, onlys) ==
    LET skip == \E j \in 1..Len(skips) : Contains(tags, VString(skips[j]))
        include == onlys = <<>>
                   \/ \E j \in 1..Len(onlys) : Contains(tags, VString(onlys[j]))
    IN  IF skip \/ ~include THEN "StopAndSkipNote" ELSE "Continue"

filter_by_tags(fm, skips, onlys) ==
    LET g == Get(fm, "tags")
    IN  IF ~g.some THEN filter_by_tags_(<<>>, skips, onlys)
        ELSE IF g.v.t = "Sequence" THEN filter_by_tags_(g.v.xs, skips, onlys)
        ELSE "Continue"

(***************************************************************************)
(* remove_specified_tags                                                   *)
(***************************************************************************)
RECURSIVE RemoveLoopM(_, _, _)
RemoveLoopM(tags, removes, result_tags) ==
    IF tags = <<>> THEN result_tags
    ELSE LET tag == unwrap_or(as_str(Head(tags)), <<>>)
         IN  RemoveLoopM(Tail(tags), removes,
                         IF ~Contains(removes, tag) /\ ~Contains(result_tags, tag)
                         THEN Append(result_tags, tag)
                         ELSE result_tags)

RECURSIVE RemoveLoop(_, _, _)
RemoveLoop(tags, removes, result_tags) ==
    IF tags = <<>> THEN result_tags
    ELSE LET tag == unwrap_or(as_str(Head(tags)), <<>>)
         IN  RemoveLoop(Tail(tags), removes,
                        IF ~Contains(removes, tag)
                        THEN Append(result_tags, tag)
                        ELSE result_tags)

IntoValue(strs) == VSequence([i \in 1..Len(strs) |-> VString(strs[i])])

remove_specified_tags(fm, removes) ==
    LET g == Get(fm, "tags")
        result_tags == IF g.some /\ g.v.t = "Sequence"
                       THEN RemoveLoop(g.v.xs, removes, <<>>)
                       ELSE <<>>
    IN  Insert(fm, "tags", IntoValue(result_tags))

(***************************************************************************)
(* Strings                                                                 *)
(***************************************************************************)
StartsWith(s, p) == Len(s) >= Len(p) /\ SubSeq(s, 1, Len(p)) = p

\* str::replace: left to right, non-overlapping matches of a non-empty pattern
RECURSIVE Replace(_, _, _)
Replace(s, pat, rep) ==
    IF Len(s) < Len(pat) THEN s
    ELSE IF SubSeq(s, 1, Len(pat)) = pat
         THEN rep \o Replace(SubSeq(s, Len(pat) + 1, Len(s)), pat, rep)
         ELSE <<Head(s)>> \o Replace(Tail(s), pat, rep)

Lowers == <<"a", "b", "c", "d", "e", "f", "g", "h", "i", "j", "k", "l", "m",
            "n", "o", "p", "q", "r", "s", "t", "u", "v", "w", "x", "y", "z">>

Uppers == <<"A", "B", "C", "D", "E", "F", "G", "H", "I", "J", "K", "L", "M",
            "N", "O", "P", "Q", "R", "S", "T", "U", "V", "W", "X", "Y", "Z">>

LowerChars == {Lowers[i] : i \in 1..Len(Lowers)}

UpperChars == {Uppers[i] : i \in 1..Len(Uppers)}

DigitChars == {"0", "1", "2", "3", "4", "5", "6", "7", "8", "9"}

ToLower(c) == Lowers[CHOOSE i \in 1..Len(Uppers) : Uppers[i] = c]

\* slug::slugify on ASCII input: (slug so far, prev_is_dash)
RECURSIVE SlugLoop(_, _, _)
SlugLoop(s, slug, prev_is_dash) ==
    IF s = <<>> THEN slug
    ELSE LET c == Head(s)
         IN  IF c \in LowerChars \cup DigitChars
             THEN SlugLoop(Tail(s), Append(slug, c), FALSE)
             ELSE IF c \in UpperChars
             THEN SlugLoop(Tail(s), Append(slug, ToLower(c)), FALSE)
             ELSE IF ~prev_is_dash
             THEN SlugLoop(Tail(s), Append(slug, "-"), TRUE)
             ELSE SlugLoop(Tail(s), slug, prev_is_dash)

slugify(s) ==
    LET string == SlugLoop(s, <<>>, TRUE)
    IN  IF string # <<>> /\ string[Len(string)] = "-"
        THEN SubSeq(string, 1, Len(string) - 1)
        ELSE string

(***************************************************************************)
(* std::path::Path: a path is the sequence of its components               *)
(***************************************************************************)
RootDir == <<"/">>

CurDir == <<".">>

ParentDir == <<".", ".">>

RECURSIVE Split(_, _)
Split(s, cur) ==
    IF s = <<>> THEN <<cur>>
    ELSE IF Head(s) = "/" THEN <<cur>> \o Split(Tail(s), <<>>)
    ELSE Split(Tail(s), Append(cur, Head(s)))

RECURSIVE KeepSegs(_, _, _)
KeepSegs(segs, i, has_root) ==
    IF i > Len(segs) THEN <<>>
    ELSE LET keep == segs[i] # <<>>
                     /\ (segs[i] # CurDir \/ (i = 1 /\ ~has_root))
         IN  (IF keep THEN <<segs[i]>> ELSE <<>>) \o KeepSegs(segs, i + 1, has_root)

\* Path::new(s).components()
Components(s) ==
    LET has_root == StartsWith(s, <<"/">>)
    IN  (IF has_root THEN <<RootDir>> ELSE <<>>) \o KeepSegs(Split(s, <<>>), 1, has_root)

file_name(p) ==
    IF p = <<>> THEN None
    ELSE IF p[Len(p)] \in {RootDir, CurDir, ParentDir} THEN None
    ELSE Some(p[Len(p)])

parent(p) ==
    IF p = <<>> THEN None
    ELSE IF p[Len(p)] = RootDir THEN None
    ELSE Some(SubSeq(p, 1, Len(p) - 1))

\* base.join(p): an absolute p replaces base; a CurDir inside a path is dropped
Join(base, p) ==
    IF p # <<>> /\ p[1] = RootDir THEN p
    ELSE IF base # <<>> /\ p # <<>> /\ p[1] = CurDir THEN base \o Tail(p)
    ELSE base \o p

LastIndexOf(s, c) ==
    IF \E i \in 1..Len(s) : s[i] = c
    THEN CHOOSE i \in 1..Len(s) : s[i] = c /\ \A j \in (i + 1)..Len(s) : s[j] # c
    ELSE 0

\* Path::file_stem of a path that has a file name
file_stem(p) ==
    LET name == file_name(p).v
        dot == LastIndexOf(name, ".")
    IN  IF dot <= 1 THEN name ELSE SubSeq(name, 1, dot - 1)

(***************************************************************************)
(* destination_from_frontmatter                                            *)
(***************************************************************************)
sDatePat == <<":", "d", "a", "t", "e">>

sTitlePat == <<":", "t", "i", "t", "l", "e">>

sDefaultDate == <<"1", "9", "7", "0", "-", "0", "1", "-", "0", "1">>

sHttps == <<"h", "t", "t", "p", "s", ":", "/", "/">>

date_of(fm) ==
    LET g == Get(fm, "date")
    IN  unwrap_or(IF g.some THEN as_str(g.v) ELSE None, sDefaultDate)

title_of(fm, cf) ==
    LET g == Get(fm, "title")
    IN  unwrap_or(IF g.some THEN as_str(g.v) ELSE None, file_stem(cf))

export_pathM(fm) ==
    LET g == Get(fm, "export_to")
    IN  IF g.some THEN Some(unwrap_or(as_str(g.v), <<>>)) ELSE None

\* the match of line 36: Some(Value::String(export_path)) or anything else
export_path(fm) ==
    LET g == Get(fm, "export_to")
    IN  IF g.some /\ g.v.t = "String" THEN Some(g.v.s) ELSE None

TargetOf(fm, cf) ==
    LET slug == slugify(title_of(fm, cf))
        target == Replace(export_path(fm).v, sDatePat, date_of(fm))
    IN  Replace(target, sTitlePat, slug)

WalkCondM(f, t) ==
    file_name(f) = file_name(t) \/ (file_name(f).some /\ file_name(t).some)

\* the loop condition of line 40
WalkCond(f, t) == file_name(f) = file_name(t)

IsLocal(d) == ~StartsWith(d, sHttps) /\ ~StartsWith(d, <<"/">>)

CopyOutcomes == {"Ok", "NotFound", "PermissionDenied"}

MkdirOutcomes == {"Ok", "PermissionDenied"}

FsCopy(src, dst, res) == [op |-> "copy", a |-> src, b |-> dst, res |-> res]

FsCreateDirAll(dir, res) == [op |-> "create_dir_all", a |-> dir, b |-> <<>>, res |-> res]

\* the Result of lines 61-69, which the stage discards
WriteResult(res, imgsrc) ==
    IF res = "Ok" THEN [ok |-> TRUE, kind |-> "Ok", path |-> <<>>]
    ELSE [ok |-> FALSE, kind |-> res, path |-> imgsrc]

Asset(imgsrc, dest, fscalls, res) ==
    [src |-> imgsrc, dst |-> dest, calls |-> fscalls, result |-> WriteResult(res, imgsrc)]

ImgSrc(cf, d) == Join(parent(cf).v, Components(d))

ImgDest(dst, d) == Join(parent(dst).v, Components(d))

(***************************************************************************)
(* Inputs: the notes, paths, streams and stage configurations explored     *)
(***************************************************************************)
SeqsUpTo(S, n) == UNION {[1..k -> S] : k \in 0..n}

tSkip == <<"a">>

tPublish == <<"b">>

tOther == <<"c">>

nNote == <<"n", "o", "t", "e", ".", "m", "d">>

nOther == <<"o", "t", "h", "e", "r", ".", "m", "d">>

nA == <<"a">>

nB == <<"b">>

nOut == <<"o", "u", "t">>

nX == <<"x">>

sDate == <<"2", "0", "2", "4", "-", "0", "1", "-", "0", "2">>

sTitle == <<"M", "y", " ", "N", "o", "t", "e">>

sOddTitle == <<"-", "A", " ", " ", "b", "!">>

sExport == <<":", "d", "a", "t", "e", "-", ":", "t", "i", "t", "l", "e", ".", "m", "d">>

sExportDir == <<"p", "/", ":", "t", "i", "t", "l", "e", ".", "m", "d">>

sExportAbs == <<"/", "w", "/", ":", "t", "i", "t", "l", "e">>

sExportTwice == <<":", "t", "i", "t", "l", "e", ":", "d", "a", "t", "e", ":", "t", "i", "t", "l", "e">>

sExportNested == <<":", ":", "d", "a", "t", "e", "t", "i", "t", "l", "e">>

uImg == <<"i", "m", "g", ".", "p", "n", "g">>

uRemote == <<"h", "t", "t", "p", "s", ":", "/", "/", "x">>

uAbsolute == <<"/", "i", ".", "p", "n", "g">>

Author == VString(<<"m", "e">>)

\* a frontmatter mapping from the optional values of its recognised keys
MkFm(date, title, export, tags) ==
    LET field == [k \in {"date", "title", "export_to", "tags", "author"} |->
                    CASE k = "date" -> date
                      [] k = "title" -> title
                      [] k = "export_to" -> export
                      [] k = "tags" -> tags
                      [] OTHER -> Author]
    IN  [k \in {x \in DOMAIN field : field[x] # Absent} |-> field[k]]

TagElems == {VString(tSkip), VString(tPublish), VNumber}

TagInputs ==
    {Absent, VString(tSkip), VNumber, VNull, VMapping}
    \cup {VSequence(q) : q \in SeqsUpTo(TagElems, MaxTags)}

TagLists == {<<>>, <<tSkip>>, <<tPublish>>, <<tOther>>, <<tSkip, tPublish>>}

EventKinds == {SoftBreak, HardBreak, Text, Image(uImg), Image(uRemote), Image(uAbsolute)}

ExampleFile == <<nA, nB, nNote>>

ExampleDest == <<nOut, nB, nNote>>

Files == {ExampleFile, <<nNote>>, <<nA, nNote>>, <<CurDir, nNote>>, <<RootDir, nA, nNote>>}

Dests == {ExampleDest, <<nNote>>, <<nOut, nNote>>, <<nOut, nOther>>, <<nX, ParentDir, nNote>>,
          <<RootDir, nOut, nA, nNote>>, <<ParentDir, nNote>>, <<nOut, ParentDir>>}

Case(fm, cf, dst, evs, sk, on, rm) ==
    [fm |-> fm, cf |-> cf, dst |-> dst, evs |-> evs, sk |-> sk, on |-> on, rm |-> rm]

\* notes that differ in their tags, under every filter configuration
FilterCases ==
    {Case(MkFm(Absent, Absent, Absent, g), ExampleFile, ExampleDest, <<SoftBreak, Text>>, sk, on, <<>>) :
        g \in TagInputs, sk \in TagLists, on \in TagLists}

\* notes that differ in their tags, under every removal list
RemoveCases ==
    {Case(MkFm(Absent, Absent, Absent, g), ExampleFile, ExampleDest, <<SoftBreak, Text>>, <<>>, <<>>, rm) :
        g \in TagInputs, rm \in TagLists}

\* notes that differ in their event stream
EventCases ==
    {Case(MkFm(VString(sDate), VString(sTitle), e, Absent),
          ExampleFile, ExampleDest, evs, <<>>, <<>>, <<>>) :
        e \in {Absent, VNumber, VString(sExport)},
        evs \in SeqsUpTo(EventKinds, MaxEvents)}

\* notes that differ in where they are and where they go
PathCases ==
    {Case(MkFm(VString(sDate), VString(sTitle), VString(e), Absent),
          cf, dst, <<Image(uImg), Image(<<>>)>>, <<>>, <<>>, <<>>) :
        e \in {sExport, sExportDir, sExportAbs, <<>>}, cf \in Files, dst \in Dests}

\* notes that differ in their template, date and title
TemplateCases ==
    {Case(MkFm(d, t, e, Absent), ExampleFile, ExampleDest, <<Image(uImg)>>, <<>>, <<>>, <<>>) :
        d \in {Absent, VNumber, VString(sDate), VString(sTitlePat)},
        t \in {Absent, VNull, VString(sTitle), VString(sOddTitle)},
        e \in {Absent, VNull, VSequence(<<>>), VString(sExport), VString(sExportDir),
               VString(sExportAbs), VString(sExportTwice), VString(sExportNested)}}

Cases == FilterCases \cup RemoveCases \cup EventCases \cup PathCases \cup TemplateCases

(***************************************************************************)
(* The state machine                                                       *)
(***************************************************************************)
Snapshot == [frontmatter |-> frontmatter, destination |-> destination, events |-> events]

Init ==
    \E c \in Cases :
        /\ frontmatter = c.fm
        /\ current_file = c.cf
        /\ destination = c.dst
        /\ events = c.evs
        /\ skip_tags = c.sk
        /\ only_tags = c.on
        /\ to_remove = c.rm
        /\ pc = "idle"
        /\ from = <<>>
        /\ to = <<>>
        /\ idx = 0
        /\ assets = <<>>
        /\ stage = "none"
        /\ result = "none"
        /\ pre = [frontmatter |-> c.fm, destination |-> c.dst, events |-> c.evs]
        /\ calls = 0

\* a stage is called on the Context and the stream
Enter(name) ==
    /\ pc = "idle"
    /\ calls < MaxCalls
    /\ calls' = calls + 1
    /\ stage' = name
    /\ pre' = Snapshot
    /\ assets' = <<>>
    /\ UNCHANGED <<current_file, skip_tags, only_tags, to_remove>>

SoftbreaksToHardbreaks ==
    /\ Enter("softbreaks_to_hardbreaks")
    /\ events' = BreakLoop(events)
    /\ result' = "Continue"
    /\ UNCHANGED <<frontmatter, destination, pc, from, to, idx>>

FilterByTags ==
    /\ Enter("filter_by_tags")
    /\ result' = filter_by_tags(frontmatter, skip_tags, only_tags)
    /\ UNCHANGED <<frontmatter, destination, events, pc, from, to, idx>>

RemoveSpecifiedTags ==
    /\ Enter("remove_specified_tags")
    /\ frontmatter' = remove_specified_tags(frontmatter, to_remove)
    /\ result' = "Continue"
    /\ UNCHANGED <<destination, events, pc, from, to, idx>>

\* export_to is absent or no string: lines 76-78
DestNoOp ==
    /\ Enter("destination_from_frontmatter")
    /\ ~export_path(frontmatter).some
    /\ result' = "Continue"
    /\ UNCHANGED <<frontmatter, destination, events, pc, from, to, idx>>

\* export_to is a string: lines 38-39
DestEnter ==
    /\ Enter("destination_from_frontmatter")
    /\ export_path(frontmatter).some
    /\ from' = current_file
    /\ to' = destination
    /\ pc' = "walk"
    /\ result' = "running"
    /\ UNCHANGED <<frontmatter, destination, events, idx>>

\* one iteration of the loop of lines 40-43
WalkStep ==
    /\ pc = "walk"
    /\ WalkCond(from, to)
    /\ to' = unwrap_or(parent(to), to)
    /\ from' = unwrap_or(parent(from), from)
    /\ UNCHANGED <<frontmatter, current_file, destination, events, skip_tags, only_tags,
                   to_remove, pc, idx, assets, stage, result, pre, calls>>

\* the loop ends: lines 44-46
WalkExit ==
    /\ pc = "walk"
    /\ ~WalkCond(from, to)
    /\ destination' = Join(to, Components(TargetOf(frontmatter, current_file)))
    /\ idx' = 1
    /\ pc' = "events"
    /\ UNCHANGED <<frontmatter, current_file, events, skip_tags, only_tags, to_remove,
                   from, to, assets, stage, result, pre, calls>>

AtLocalImage ==
    /\ pc = "events"
    /\ idx <= Len(events)
    /\ events[idx].e = "Image"
    /\ IsLocal(events[idx].url)

\* an event that is no locally-relative image: lines 57, 72
SkipEvent ==
    /\ pc = "events"
    /\ idx <= Len(events)
    /\ ~AtLocalImage
    /\ idx' = idx + 1
    /\ UNCHANGED <<frontmatter, current_file, destination, events, skip_tags, only_tags,
                   to_remove, pc, from, to, assets, stage, result, pre, calls>>

Aborted ==
    /\ pc' = "panicked"
    /\ UNCHANGED <<frontmatter, current_file, destination, events, skip_tags, only_tags,
                   to_remove, from, to, idx, stage, result, pre, calls>>

\* line 59: the new destination has no parent
DestParentPanic ==
    /\ AtLocalImage
    /\ ~parent(destination).some
    /\ assets' = assets
    /\ Aborted

\* line 64: the first copy found nothing and the target has no parent
DirParentPanic ==
    /\ AtLocalImage
    /\ parent(destination).some
    /\ LET d == events[idx].url
           imgsrc == ImgSrc(current_file, d)
           dest == ImgDest(destination, d)
       IN  /\ ~parent(dest).some
           /\ assets' = Append(assets, [src |-> imgsrc, dst |-> dest,
                                        calls |-> <<FsCopy(imgsrc, dest, "NotFound")>>,
                                        result |-> [ok |-> FALSE, kind |-> "panic", path |-> <<>>]])
    /\ Aborted

\* the fs calls of lines 61-69 and their discarded Result
CopyCalls(imgsrc, dest, r1, rm, r2) ==
    IF r1 = "Ok" THEN <<FsCopy(imgsrc, dest, r1)>>
    ELSE IF r1 = "NotFound"
         THEN IF rm = "Ok"
              THEN <<FsCopy(imgsrc, dest, r1), FsCreateDirAll(parent(dest).v, rm),
                     FsCopy(imgsrc, dest, r2)>>
              ELSE <<FsCopy(imgsrc, dest, r1), FsCreateDirAll(parent(dest).v, rm)>>
         ELSE <<FsCopy(imgsrc, dest, r1), FsCopy(imgsrc, dest, r2)>>

CopyOutcome(r1, rm, r2) ==
    IF r1 = "Ok" THEN "Ok"
    ELSE IF r1 = "NotFound" /\ rm # "Ok" THEN rm
    ELSE r2

\* a locally-relative image: lines 56-70
CopyAsset ==
    /\ AtLocalImage
    /\ parent(destination).some
    /\ \E r1 \in CopyOutcomes, rm \in MkdirOutcomes, r2 \in CopyOutcomes :
         LET d == events[idx].url
             imgsrc == ImgSrc(current_file, d)
             dest == ImgDest(destination, d)
         IN  /\ r1 = "NotFound" => parent(dest).some
             /\ assets' = Append(assets, Asset(imgsrc, dest,
                                               CopyCalls(imgsrc, dest, r1, rm, r2),
                                               CopyOutcome(r1, rm, r2)))
    /\ idx' = idx + 1
    /\ UNCHANGED <<frontmatter, current_file, destination, events, skip_tags, only_tags,
                   to_remove, pc, from, to, stage, result, pre, calls>>

\* line 78
DestReturn ==
    /\ pc = "events"
    /\ idx > Len(events)
    /\ pc' = "idle"
    /\ result' = "Continue"
    /\ UNCHANGED <<frontmatter, current_file, destination, events, skip_tags, only_tags,
                   to_remove, from, to, idx, assets, stage, pre, calls>>

Next ==
    \/ SoftbreaksToHardbreaks
    \/ FilterByTags
    \/ RemoveSpecifiedTags
    \/ DestNoOp
    \/ DestEnter
    \/ WalkStep
    \/ WalkExit
    \/ SkipEvent
    \/ DestParentPanic
    \/ DirParentPanic
    \/ CopyAsset
    \/ DestReturn

Spec == Init /\ [][Next]_vars

(***************************************************************************)
(* Vocabulary of the properties                                            *)
(***************************************************************************)
PreTags == Get(pre.frontmatter, "tags")

PreExport == Get(pre.frontmatter, "export_to")

Ran(name) == stage = name /\ pc = "idle" /\ result # "running"

\* some string tag of the note is in the list
HasTagIn(tags, list) ==
    \E i \in 1..Len(tags) :
        tags[i].t = "String" /\ \E j \in 1..Len(list) : list[j] = tags[i].s

WellTyped(tags) == \A i \in 1..Len(tags) : tags[i].t = "String"

WithoutKey(fm, k) == [x \in (DOMAIN fm) \ {k} |-> fm[x]]

\* the number of trailing components the two paths have in common
CommonTrail(f, d) ==
    LET m == IF Len(f) < Len(d) THEN Len(f) ELSE Len(d)
        same(k) == \A i \in 1..k : f[Len(f) - i + 1] = d[Len(d) - i + 1]
    IN  CHOOSE k \in 0..m : same(k) /\ \A j \in (k + 1)..m : ~same(j)

SharedRoot(f, d) == SubSeq(d, 1, Len(d) - CommonTrail(f, d))

RootOf(p) == IF p # <<>> /\ p[1] = RootDir THEN <<RootDir>> ELSE <<>>

\* export_to with :date, then :title, replaced
Template ==
    LET fm == pre.frontmatter
        date == IF "date" \in DOMAIN fm /\ fm["date"].t = "String"
                THEN fm["date"].s ELSE sDefaultDate
        title == IF "title" \in DOMAIN fm /\ fm["title"].t = "String"
                 THEN fm["title"].s ELSE file_stem(current_file)
    IN  Replace(Replace(PreExport.v.s, sDatePat, date), sTitlePat, slugify(title))

ExportIsString == PreExport.some /\ PreExport.v.t = "String"

\* destination_from_frontmatter has assigned Context.destination
Resolved ==
    /\ stage = "destination_from_frontmatter"
    /\ ExportIsString
    /\ pc \in {"events", "idle"}

LastDiffers(f, d) == d = <<>> \/ f = <<>> \/ f[Len(f)] # d[Len(d)]

OnlyNormal(p) == \A i \in 1..Len(p) : p[i] \notin {RootDir, CurDir, ParentDir}

(***************************************************************************)
(* Properties                                                              *)
(***************************************************************************)

\* C1: the Tag Filter returns StopAndSkipNote exactly when some note tag is in
\* skip_tags, or only_tags is non-empty and no note tag is in only_tags, and
\* Continue otherwise (the note's tags being absent or a sequence).
C1_DecisionRule ==
    (Ran("filter_by_tags") /\ (~PreTags.some \/ PreTags.v.t = "Sequence")) =>
        LET tags == IF PreTags.some THEN PreTags.v.xs ELSE <<>>
            veto == HasTagIn(tags, skip_tags)
                    \/ (only_tags # <<>> /\ ~HasTagIn(tags, only_tags))
        IN  /\ result = IF veto THEN "StopAndSkipNote" ELSE "Continue"
            /\ (tags = <<>> => (result = "Continue" <=> only_tags = <<>>))

\* a note with a denied tag and an allowed tag was vetoed
C1_Witness ==
    /\ Ran("filter_by_tags")
    /\ PreTags.some
    /\ PreTags.v.t = "Sequence"
    /\ HasTagIn(PreTags.v.xs, skip_tags)
    /\ HasTagIn(PreTags.v.xs, only_tags)
    /\ result = "StopAndSkipNote"

\* C2: when tags is present but no sequence, the Tag Filter's verdict is the
\* verdict it gives the same note without its tags field.
C2_MalformedAsAbsent ==
    (Ran("filter_by_tags") /\ PreTags.some /\ PreTags.v.t # "Sequence") =>
        /\ result = filter_by_tags(WithoutKey(pre.frontmatter, "tags"), skip_tags, only_tags)
        /\ (only_tags # <<>> => result = "StopAndSkipNote")

\* C3: when tags is absent, no sequence, or a sequence with a non-string
\* element, the Tag Remover leaves tags the empty sequence and returns Continue.
C3_MalformedEmptied ==
    (Ran("remove_specified_tags")
     /\ (~PreTags.some \/ PreTags.v.t # "Sequence" \/ ~WellTyped(PreTags.v.xs))) =>
        /\ "tags" \in DOMAIN frontmatter
        /\ frontmatter["tags"] = VSequence(<<>>)
        /\ result = "Continue"

\* C4: when tags is a sequence of strings, the Tag Remover leaves the
\* subsequence of the tags not in the removal list, in order and with
\* duplicates, every other key as it was, and returns Continue.
C4_RemoverKeepsOthers ==
    (Ran("remove_specified_tags") /\ PreTags.some /\ PreTags.v.t = "Sequence"
     /\ WellTyped(PreTags.v.xs)) =>
        LET kept(v) == ~\E j \in 1..Len(to_remove) : to_remove[j] = v.s
            out == frontmatter["tags"]
        IN  /\ out = VSequence(SelectSeq(PreTags.v.xs, kept))
            /\ \A i \in 1..Len(out.xs) : ~Contains(to_remove, out.xs[i].s)
            /\ DOMAIN frontmatter = DOMAIN pre.frontmatter
            /\ \A k \in (DOMAIN frontmatter) \ {"tags"} : frontmatter[k] = pre.frontmatter[k]
            /\ destination = pre.destination
            /\ events = pre.events
            /\ result = "Continue"

\* a listed tag was removed and a duplicated tag was kept twice
C4_Witness ==
    /\ Ran("remove_specified_tags")
    /\ PreTags.some
    /\ PreTags.v.t = "Sequence"
    /\ WellTyped(PreTags.v.xs)
    /\ Len(frontmatter["tags"].xs) < Len(PreTags.v.xs)
    /\ \E i, j \in 1..Len(frontmatter["tags"].xs) :
          i # j /\ frontmatter["tags"].xs[i] = frontmatter["tags"].xs[j]

\* C5: when export_to is a string, the new destination is the default
\* destination without the trailing components it shares with current_file,
\* joined with export_to after :date and :title are replaced.
C5_SharedRootJoined ==
    Resolved =>
        destination = Join(SharedRoot(current_file, pre.destination), Components(Template))

\* C5 on paths made of named components only
DestinationOnNormalPaths ==
    (Resolved /\ OnlyNormal(current_file) /\ OnlyNormal(pre.destination)) =>
        destination = Join(SharedRoot(current_file, pre.destination), Components(Template))

\* the example of the destination resolver: a/b/note.md, out/b/note.md
DestinationExample ==
    (Resolved /\ current_file = ExampleFile /\ pre.destination = ExampleDest
     /\ pre.frontmatter = MkFm(VString(sDate), VString(sTitle), VString(sExport), Absent)) =>
        destination = <<nOut, <<"2", "0", "2", "4", "-", "0", "1", "-", "0", "2", "-",
                                "m", "y", "-", "n", "o", "t", "e", ".", "m", "d">>>>

\* C6 as stated: when the final components of current_file and of the default
\* destination differ, the template is anchored at the destination's root.
C6_AnchoredAtRoot ==
    (Resolved /\ LastDiffers(current_file, pre.destination)) =>
        destination = Join(RootOf(pre.destination), Components(Template))

\* C6 as amended: when the final components of current_file and of the default
\* destination differ, the template is anchored at the whole default
\* destination (an absolute template replaces it).
C6_AnchoredAtDestination ==
    (Resolved /\ LastDiffers(current_file, pre.destination)) =>
        LET t == Components(Template)
        IN  destination = IF t # <<>> /\ t[1] = RootDir THEN t
                          ELSE IF t # <<>> /\ t[1] = CurDir /\ pre.destination # <<>>
                               THEN pre.destination \o Tail(t)
                               ELSE pre.destination \o t

\* a relative template was anchored below a default destination of two components
C6_Witness ==
    /\ Resolved
    /\ pc = "idle"
    /\ LastDiffers(current_file, pre.destination)
    /\ Len(pre.destination) = 2
    /\ Len(destination) > 2
    /\ SubSeq(destination, 1, 2) = pre.destination

\* C7: when export_to is absent or no string, the Destination Resolver changes
\* neither the destination, the frontmatter nor the events, makes no filesystem
\* call, and returns Continue.
C7_NoOp ==
    (stage = "destination_from_frontmatter" /\ ~ExportIsString) =>
        /\ pc = "idle"
        /\ result = "Continue"
        /\ destination = pre.destination
        /\ frontmatter = pre.frontmatter
        /\ events = pre.events
        /\ assets = <<>>

\* the resolver ran on a note with a non-string export_to and a local image
C7_Witness ==
    /\ Ran("destination_from_frontmatter")
    /\ PreExport.some
    /\ PreExport.v.t # "String"
    /\ \E i \in 1..Len(events) : events[i].e = "Image" /\ IsLocal(events[i].url)

\* C8: the Line-break Normalizer keeps the length of the stream, puts HardBreak
\* where SoftBreak was and leaves every other event, leaves the Context, and
\* returns Continue; applied again it changes nothing.
C8_BreaksNormalized ==
    Ran("softbreaks_to_hardbreaks") =>
        /\ Len(events) = Len(pre.events)
        /\ \A i \in 1..Len(events) :
              events[i] = IF pre.events[i] = SoftBreak THEN HardBreak ELSE pre.events[i]
        /\ \A i \in 1..Len(events) : events[i] # SoftBreak
        /\ frontmatter = pre.frontmatter
        /\ destination = pre.destination
        /\ result = "Continue"
        /\ BreakLoop(events) = events
        /\ (\A i \in 1..Len(pre.events) : pre.events[i] # SoftBreak) => events = pre.events

\* a stream with a soft break and an image was normalized
C8_Witness ==
    /\ Ran("softbreaks_to_hardbreaks")
    /\ \E i \in 1..Len(pre.events) : pre.events[i] = SoftBreak
    /\ \E i \in 1..Len(pre.events) : pre.events[i].e = "Image"

\* C9: the trailing-component walk stops after finitely many steps. The loop
\* body reads and writes from and to only, so it stops exactly when every
\* iteration it takes shortens one of the two paths.
C9_WalkTerminates ==
    (pc = "walk" /\ WalkCond(from, to)) =>
        Len(unwrap_or(parent(from), from)) + Len(unwrap_or(parent(to), to))
            < Len(from) + Len(to)

\* C10: for each locally-relative image the copy from current_file's parent to
\* the new destination's parent is attempted first; a directory is created and
\* the copy attempted again only after a first attempt that found nothing, and
\* once; any other first failure ends in a write error tagged with the source,
\* with no second attempt; no failure changes the destination or the events.
C10_CopyProtocol ==
    (stage = "destination_from_frontmatter" /\ pc \in {"events", "idle"}) =>
        /\ events = pre.events
        /\ \A n \in 1..Len(assets) :
              LET a == assets[n]
                  first == a.calls[1]
              IN  /\ first.op = "copy" /\ first.a = a.src /\ first.b = a.dst
                  /\ Len(a.calls) > 1 => first.res = "NotFound"
                  /\ Len(a.calls) <= 3
                  /\ \A i \in 2..Len(a.calls) :
                        a.calls[i].op = (IF i = 2 THEN "create_dir_all" ELSE "copy")
                  /\ first.res \notin {"Ok", "NotFound"} =>
                        /\ Len(a.calls) = 1
                        /\ a.result = [ok |-> FALSE, kind |-> first.res, path |-> a.src]

====
